---- MODULE Spec2Model ----
(***************************************************************************)
(* Model of the masoria script parser (src/src/parser.ts).                 *)
(*                                                                         *)
(* A JavaScript string is a sequence of one-character strings, so that     *)
(* split, trim, replace, substring and startsWith are computed as the      *)
(* code computes them.  The JavaScript value `undefined` is the one-element*)
(* sequence Undefined, whose element is not a character; an optional       *)
(* object (currentScene, currentCharacter, the returned result) is the     *)
(* empty tuple when undefined and a one-element tuple otherwise.           *)
(***************************************************************************)
EXTENDS Integers, Sequences, FiniteSets, TLC

(***************************************************************************)
(* Bounds of the model.                                                    *)
(***************************************************************************)
\* most free lines of a script of the lexical specification Spec
MaxLines == 2
\* most free lines of a script of the scene-graph specification SpecGraph
MaxGraphLines == 4
\* most free lines of a script of SpecGraph that are not scene or choice lines
MaxNoiseLines == 1

(***************************************************************************)
(* JavaScript values and string primitives.                                *)
(***************************************************************************)
Undefined == <<"undefined">>

\* JavaScript truthiness of a string-or-undefined value
Truthy(v) == v # Undefined /\ v # <<>>

\* the characters matched by \s and removed by trim() that the model's lines use
Whitespace == {" ", "\t"}

UpperCase == <<"A", "B", "C", "D", "E", "F", "G", "H", "I", "J", "K", "L", "M",
               "N", "O", "P", "Q", "R", "S", "T", "U", "V", "W", "X", "Y", "Z">>

LowerCase == <<"a", "b", "c", "d", "e", "f", "g", "h", "i", "j", "k", "l", "m",
               "n", "o", "p", "q", "r", "s", "t", "u", "v", "w", "x", "y", "z">>

\* the lower-case letter of every upper-case letter
LowerOf == [c \in {UpperCase[k] : k \in 1..26} |->
              LowerCase[CHOOSE k \in 1..26 : UpperCase[k] = c]]

LowerChar(c) == IF c \in DOMAIN LowerOf THEN LowerOf[c] ELSE c

toLowerCase(s) == [i \in 1..Len(s) |-> LowerChar(s[i])]

\* number of leading whitespace characters: the length of the match of /^(\s*)/
RECURSIVE LeadingWhitespace(_)
LeadingWhitespace(s) ==
  IF s = <<>> \/ Head(s) \notin Whitespace THEN 0
  ELSE 1 + LeadingWhitespace(Tail(s))

RECURSIVE TrailingWhitespace(_)
TrailingWhitespace(s) ==
  IF s = <<>> \/ s[Len(s)] \notin Whitespace THEN 0
  ELSE 1 + TrailingWhitespace(SubSeq(s, 1, Len(s) - 1))

trim(s) ==
  IF LeadingWhitespace(s) = Len(s) THEN <<>>
  ELSE SubSeq(s, LeadingWhitespace(s) + 1, Len(s) - TrailingWhitespace(s))

startsWith(s, p) == Len(s) >= Len(p) /\ SubSeq(s, 1, Len(p)) = p

\* 0-based index of the first occurrence of p in s from 0-based position k, or -1
RECURSIVE IndexFrom(_, _, _)
IndexFrom(s, p, k) ==
  IF k + Len(p) > Len(s) THEN -1
  ELSE IF SubSeq(s, k + 1, k + Len(p)) = p THEN k
  ELSE IndexFrom(s, p, k + 1)

indexOf(s, p) == IndexFrom(s, p, 0)

includes(s, p) == indexOf(s, p) # -1

\* String.prototype.substring: arguments clamped to [0, length], swapped if start > end
Clamp(n, len) == IF n < 0 THEN 0 ELSE IF n > len THEN len ELSE n

substring(s, start, end) ==
  LET a == Clamp(start, Len(s))
      b == Clamp(end, Len(s))
      lo == IF a <= b THEN a ELSE b
      hi == IF a <= b THEN b ELSE a
  IN SubSeq(s, lo + 1, hi)

\* String.prototype.replace with a string pattern: the first occurrence only
replace(s, p, r) ==
  LET i == indexOf(s, p)
  IN IF i = -1 THEN s
     ELSE SubSeq(s, 1, i) \o r \o SubSeq(s, i + Len(p) + 1, Len(s))

\* String.prototype.split with a one-character separator
RECURSIVE split(_, _)
split(s, sep) ==
  LET i == indexOf(s, <<sep>>)
  IN IF i = -1 THEN <<s>>
     ELSE <<SubSeq(s, 1, i)>> \o split(SubSeq(s, i + 2, Len(s)), sep)

\* array destructuring: the k-th element (1-based), undefined past the end
At(arr, k) == IF k <= Len(arr) THEN arr[k] ELSE Undefined

\* s.replace(/\s+/g, " "): every run of whitespace becomes one space
RECURSIVE CollapseWhitespace(_)
CollapseWhitespace(s) ==
  IF s = <<>> THEN <<>>
  ELSE IF Head(s) \in Whitespace
       THEN <<" ">> \o CollapseWhitespace(SubSeq(s, LeadingWhitespace(s) + 1, Len(s)))
       ELSE <<Head(s)>> \o CollapseWhitespace(Tail(s))

removeExtraSpaces(line) == trim(CollapseWhitespace(line))

(***************************************************************************)
(* Keywords and error values.                                              *)
(***************************************************************************)
KeywordScene == <<"s", "c", "e", "n", "e">>
KeywordChoice == <<"c", "h", "o", "i", "c", "e">>
KeywordEmotion == <<"e", "m", "o", "t", "i", "o", "n">>
KeywordCharacter == <<"c", "h", "a", "r", "a", "c", "t", "e", "r">>

NoError == "none"
ForbiddenInlineScene == "Inline instructions are forbidden in this context (scenes)!"
ForbiddenInlineCharacter == "Inline instructions are forbidden in this context (characters)!"
ChoiceOutsideScene == "Choice must be inside a scene!"
ChoiceMissingTarget == "Choice must have a target scene!"
EmotionOutsideCharacter == "Emotion must be inside a character!"
EmotionMissingPath == "An emotion declaration must have a path!"
\* reading a property of undefined: thrown by the runtime, not by a throw statement
TypeError == "TypeError"

(***************************************************************************)
(* Line preprocessor and keyword classifier.                               *)
(***************************************************************************)
\* the script is given as its raw lines, i.e. already split on "\n"
getLines(rawLines) == SelectSeq(rawLines, LAMBDA l : Len(trim(l)) > 0)

\* spaces / 4 === level is a division of reals: it holds iff spaces = 4 * level
isIndentationLevelCorrect(line, level) ==
  LET spaces == LeadingWhitespace(line)
  IN spaces % 2 = 0 /\ spaces = 4 * level

hasKeyword(keyword, line, level) ==
  IF startsWith(trim(toLowerCase(line)), keyword)
  THEN isIndentationLevelCorrect(line, level)
  ELSE FALSE

(***************************************************************************)
(* Statement builders.  A builder that can throw yields a record whose     *)
(* error field is NoError when it returns normally.                        *)
(***************************************************************************)
\* text.trim() throws a TypeError when the line has no colon
hasForbiddenInline(line) ==
  LET text == At(split(line, ":"), 2)
  IN IF text = Undefined THEN [error |-> TypeError, value |-> FALSE]
     ELSE [error |-> NoError, value |-> Len(trim(text)) > 0]

getParameter(string) ==
  IF ~includes(string, <<"<">>) THEN [string |-> string, parameter |-> Undefined]
  ELSE LET parameter == substring(string, indexOf(string, <<"<">>) + 1,
                                  indexOf(string, <<">">>))
       IN [string |-> replace(string, <<"<">> \o parameter \o <<">">>, <<>>),
           parameter |-> parameter]

NoScene == [label |-> Undefined, isEndingScene |-> FALSE, condition |-> Undefined,
            dialogues |-> <<>>, nextScene |-> Undefined,
            previousScene |-> Undefined, choices |-> <<>>]

\* a scene's choices field is <<>> while the field is absent: the code creates
\* the array with its first element, so a present array is never empty
makeScene(line) ==
  LET inline == hasForbiddenInline(line)
      tokens == split(removeExtraSpaces(line), " ")
      labelCondition == At(tokens, 2)
      pointedScene == At(tokens, 4)
      param == getParameter(replace(labelCondition, <<":">>, <<>>))
  IN IF inline.error # NoError THEN [error |-> inline.error, scene |-> NoScene]
     ELSE IF inline.value THEN [error |-> ForbiddenInlineScene, scene |-> NoScene]
     ELSE IF labelCondition = Undefined THEN [error |-> TypeError, scene |-> NoScene]
     ELSE [error |-> NoError,
           scene |-> [label |-> param.string,
                      isEndingScene |-> FALSE,
                      condition |-> param.parameter,
                      dialogues |-> <<>>,
                      nextScene |-> IF Truthy(pointedScene)
                                    THEN replace(pointedScene, <<":">>, <<>>)
                                    ELSE Undefined,
                      previousScene |-> Undefined,
                      choices |-> <<>>]]

NoEmotions == [e \in {} |-> <<>>]

NoCharacter == [name |-> Undefined, emotions |-> NoEmotions]

makeCharacter(line) ==
  LET inline == hasForbiddenInline(line)
      name == At(split(removeExtraSpaces(line), " "), 2)
  IN IF inline.error # NoError THEN [error |-> inline.error, character |-> NoCharacter]
     ELSE IF inline.value
          THEN [error |-> ForbiddenInlineCharacter, character |-> NoCharacter]
     ELSE IF name = Undefined THEN [error |-> TypeError, character |-> NoCharacter]
     ELSE [error |-> NoError,
           character |-> [name |-> replace(name, <<":">>, <<>>),
                          emotions |-> NoEmotions]]

\* the target is tested before the open scene
addChoiceChecksTargetFirst(line, currentScene) ==
  LET parts == split(line, ":")
      instruction == At(parts, 1)
      label == At(parts, 2)
      targetScene == getParameter(instruction).parameter
  IN IF ~Truthy(targetScene)
     THEN [error |-> ChoiceMissingTarget, scene |-> currentScene]
     ELSE IF currentScene = <<>>
          THEN [error |-> ChoiceOutsideScene, scene |-> currentScene]
     ELSE IF label = Undefined THEN [error |-> TypeError, scene |-> currentScene]
     ELSE [error |-> NoError,
           scene |-> <<[currentScene[1] EXCEPT !.choices =
                          Append(@, [label |-> trim(label),
                                     targetScene |-> targetScene])]>>]

\* currentScene.choices.unshift(...): the new choice is put first
addChoiceUnshifts(line, currentScene) ==
  LET parts == split(line, ":")
      instruction == At(parts, 1)
      label == At(parts, 2)
      targetScene == getParameter(instruction).parameter
  IN IF currentScene = <<>> THEN [error |-> ChoiceOutsideScene, scene |-> currentScene]
     ELSE IF ~Truthy(targetScene)
          THEN [error |-> ChoiceMissingTarget, scene |-> currentScene]
     ELSE IF label = Undefined THEN [error |-> TypeError, scene |-> currentScene]
     ELSE [error |-> NoError,
           scene |-> <<[currentScene[1] EXCEPT !.choices =
                          <<[label |-> trim(label),
                             targetScene |-> targetScene]>> \o @]>>]

\* currentScene is <<>> (undefined) or <<scene>>; label.trim() throws a
\* TypeError when the line has no colon
addChoice(line, currentScene) ==
  LET parts == split(line, ":")
      instruction == At(parts, 1)
      label == At(parts, 2)
      targetScene == getParameter(instruction).parameter
  IN IF currentScene = <<>> THEN [error |-> ChoiceOutsideScene, scene |-> currentScene]
     ELSE IF ~Truthy(targetScene)
          THEN [error |-> ChoiceMissingTarget, scene |-> currentScene]
     ELSE IF label = Undefined THEN [error |-> TypeError, scene |-> currentScene]
     ELSE [error |-> NoError,
           scene |-> <<[currentScene[1] EXCEPT !.choices =
                          Append(@, [label |-> trim(label),
                                     targetScene |-> targetScene])]>>]

\* an absent emotion name is the property key "undefined"
addEmotion(line, currentCharacter) ==
  LET parts == split(line, ":")
      instruction == At(parts, 1)
      emotionPath == At(parts, 2)
      emotionName == At(split(removeExtraSpaces(instruction), " "), 2)
  IN IF currentCharacter = <<>>
     THEN [error |-> EmotionOutsideCharacter, character |-> currentCharacter]
     ELSE IF ~Truthy(emotionPath)
          THEN [error |-> EmotionMissingPath, character |-> currentCharacter]
     ELSE [error |-> NoError,
           character |-> <<[currentCharacter[1] EXCEPT !.emotions =
                              [e \in (DOMAIN @) \cup {emotionName} |->
                                 IF e = emotionName THEN trim(emotionPath)
                                 ELSE @[e]]]>>]

(***************************************************************************)
(* Reference reconciler.                                                   *)
(***************************************************************************)
\* the reduce: one entry per scene that has choices, in the order of scenes
RECURSIVE References(_)
References(scenes) ==
  IF scenes = <<>> THEN <<>>
  ELSE LET scene == Head(scenes)
       IN (IF scene.choices # <<>>
           THEN <<[parent |-> scene.label,
                   choices |-> [i \in 1..Len(scene.choices) |->
                                  scene.choices[i].targetScene]]>>
           ELSE <<>>) \o References(Tail(scenes))

SeqIncludes(arr, v) == \E i \in 1..Len(arr) : arr[i] = v

\* Array.prototype.find: the first reference whose choices include the label,
\* as <<>> (undefined) or <<reference>>
\* findLast instead of find: the last reference whose choices include the label
RECURSIVE FindLastReference(_, _)
FindLastReference(references, label) ==
  IF references = <<>> THEN <<>>
  ELSE IF SeqIncludes(references[Len(references)].choices, label)
       THEN <<references[Len(references)]>>
  ELSE FindLastReference(SubSeq(references, 1, Len(references) - 1), label)

RECURSIVE FindReference(_, _)
FindReference(references, label) ==
  IF references = <<>> THEN <<>>
  ELSE IF SeqIncludes(Head(references).choices, label) THEN <<Head(references)>>
  ELSE FindReference(Tail(references), label)

\* scene.previousScene = reference?.parent: a scene no choice targets loses
\* the previousScene that chaining gave it
organizeSceneRefsDropsChaining(scenes) ==
  LET references == References(scenes)
  IN [i \in 1..Len(scenes) |->
        LET reference == FindReference(references, scenes[i].label)
        IN [scenes[i] EXCEPT !.previousScene =
              IF reference # <<>> THEN reference[1].parent ELSE Undefined]]

\* scene.previousScene = scene.previousScene ?? reference.parent: chaining wins
organizeSceneRefsChainingWins(scenes) ==
  LET references == References(scenes)
  IN [i \in 1..Len(scenes) |->
        LET reference == FindReference(references, scenes[i].label)
        IN [scenes[i] EXCEPT !.previousScene =
              IF reference # <<>> /\ @ = Undefined THEN reference[1].parent ELSE @]]

\* the pass also writes reference.parent into nextScene
organizeSceneRefsWritesNextScene(scenes) ==
  LET references == References(scenes)
  IN [i \in 1..Len(scenes) |->
        LET reference == FindReference(references, scenes[i].label)
        IN [scenes[i] EXCEPT !.previousScene =
              IF reference # <<>> THEN reference[1].parent ELSE @,
                             !.nextScene =
              IF reference # <<>> THEN reference[1].parent ELSE @]]

organizeSceneRefs(scenes) ==
  LET references == References(scenes)
  IN [i \in 1..Len(scenes) |->
        LET reference == FindReference(references, scenes[i].label)
        IN [scenes[i] EXCEPT !.previousScene =
              IF reference # <<>> THEN reference[1].parent ELSE @]]

(***************************************************************************)
(* The script lines of the lexical specification.                          *)
(***************************************************************************)
\* scene A:
LineSceneA == <<"s", "c", "e", "n", "e", " ", "A", ":">>
\* SCENE B:
LineSceneUpperB == <<"S", "C", "E", "N", "E", " ", "B", ":">>
\* scene A -> Z:
LineSceneAToZ == <<"s", "c", "e", "n", "e", " ", "A", " ", "-", ">", " ", "Z", ":">>
\* scene intro<hasKey>:
LineSceneCond ==
  <<"s", "c", "e", "n", "e", " ", "i", "n", "t", "r", "o", "<", "h", "a", "s", "K", "e",
    "y", ">", ":">>
\* scene intro
LineSceneBare == <<"s", "c", "e", "n", "e", " ", "i", "n", "t", "r", "o">>
\* scene intro<hasKey>
LineSceneBareCond ==
  <<"s", "c", "e", "n", "e", " ", "i", "n", "t", "r", "o", "<", "h", "a", "s", "K", "e",
    "y", ">">>
\* scene A -> Z
LineSceneBareToZ == <<"s", "c", "e", "n", "e", " ", "A", " ", "-", ">", " ", "Z">>
\* scene A: extra
LineSceneInline == <<"s", "c", "e", "n", "e", " ", "A", ":", " ", "e", "x", "t", "r", "a">>
\* scene A::x
LineSceneTwoColons == <<"s", "c", "e", "n", "e", " ", "A", ":", ":", "x">>
\* scene A:  (ends with 1 space)
LineSceneColonSpace == <<"s", "c", "e", "n", "e", " ", "A", ":", " ">>
\* scene:
LineSceneNoLabel == <<"s", "c", "e", "n", "e", ":">>
\*   scene A:
LineSceneIndent2 == <<" ", " ", "s", "c", "e", "n", "e", " ", "A", ":">>
\* character X:
LineCharacterX == <<"c", "h", "a", "r", "a", "c", "t", "e", "r", " ", "X", ":">>
\* character X: hi
LineCharacterInline == <<"c", "h", "a", "r", "a", "c", "t", "e", "r", " ", "X", ":", " ", "h", "i">>
\* character Y: :hi
LineCharacterSecondColon ==
  <<"c", "h", "a", "r", "a", "c", "t", "e", "r", " ", "Y", ":", " ", ":", "h", "i">>
\*     emotion happy: p
LineEmotionHappy ==
  <<" ", " ", " ", " ", "e", "m", "o", "t", "i", "o", "n", " ", "h", "a", "p", "p", "y",
    ":", " ", "p">>
\*     emotion happy: q
LineEmotionHappyQ ==
  <<" ", " ", " ", " ", "e", "m", "o", "t", "i", "o", "n", " ", "h", "a", "p", "p", "y",
    ":", " ", "q">>
\*     emotion happy:
LineEmotionEmpty ==
  <<" ", " ", " ", " ", "e", "m", "o", "t", "i", "o", "n", " ", "h", "a", "p", "p", "y",
    ":">>
\*     emotion happy
LineEmotionNoColon ==
  <<" ", " ", " ", " ", "e", "m", "o", "t", "i", "o", "n", " ", "h", "a", "p", "p", "y">>
\*     emotion happy:  (ends with 1 space)
LineEmotionBlankPath ==
  <<" ", " ", " ", " ", "e", "m", "o", "t", "i", "o", "n", " ", "h", "a", "p", "p", "y",
    ":", " ">>
\*     emotion happy: a:b
LineEmotionColonPath ==
  <<" ", " ", " ", " ", "e", "m", "o", "t", "i", "o", "n", " ", "h", "a", "p", "p", "y",
    ":", " ", "a", ":", "b">>
\*     choice<B>: go
LineChoiceB ==
  <<" ", " ", " ", " ", "c", "h", "o", "i", "c", "e", "<", "B", ">", ":", " ", "g", "o">>
\*     choice: go
LineChoiceNoTarget == <<" ", " ", " ", " ", "c", "h", "o", "i", "c", "e", ":", " ", "g", "o">>
\* choice<B>: go
LineChoiceIndent0 == <<"c", "h", "o", "i", "c", "e", "<", "B", ">", ":", " ", "g", "o">>
\*   choice<B>: go
LineChoiceIndent2 == <<" ", " ", "c", "h", "o", "i", "c", "e", "<", "B", ">", ":", " ", "g", "o">>
\*       choice<B>: go
LineChoiceIndent6 ==
  <<" ", " ", " ", " ", " ", " ", "c", "h", "o", "i", "c", "e", "<", "B", ">", ":", " ",
    "g", "o">>
\* \t\t\t\tchoice<B>: go
LineChoiceTabs ==
  <<"\t", "\t", "\t", "\t", "c", "h", "o", "i", "c", "e", "<", "B", ">", ":", " ", "g",
    "o">>
\* \t\t\t\temotion happy: p
LineEmotionTabs ==
  <<"\t", "\t", "\t", "\t", "e", "m", "o", "t", "i", "o", "n", " ", "h", "a", "p", "p",
    "y", ":", " ", "p">>
\* ending scene E:
LineEndingScene == <<"e", "n", "d", "i", "n", "g", " ", "s", "c", "e", "n", "e", " ", "E", ":">>
\*     use emotion happy
LineUseEmotion ==
  <<" ", " ", " ", " ", "u", "s", "e", " ", "e", "m", "o", "t", "i", "o", "n", " ", "h",
    "a", "p", "p", "y">>
\*   (ends with 2 spaces)
LineBlank == <<" ", " ">>

LexicalLines ==
  {LineSceneA, LineSceneUpperB, LineSceneAToZ,
   LineSceneCond, LineSceneBare, LineSceneBareCond,
   LineSceneBareToZ, LineSceneInline, LineSceneTwoColons,
   LineSceneColonSpace, LineSceneNoLabel, LineSceneIndent2,
   LineCharacterX, LineCharacterInline, LineCharacterSecondColon,
   LineEmotionHappy, LineEmotionHappyQ, LineEmotionEmpty,
   LineEmotionNoColon, LineEmotionBlankPath, LineEmotionColonPath,
   LineChoiceB, LineChoiceNoTarget, LineChoiceIndent0,
   LineChoiceIndent2, LineChoiceIndent6, LineChoiceTabs,
   LineEmotionTabs, LineEndingScene, LineUseEmotion,
   LineBlank}

(***************************************************************************)
(* The script lines of the scene-graph specification.                      *)
(***************************************************************************)
\* scene A:
GLineSceneA == <<"s", "c", "e", "n", "e", " ", "A", ":">>
\* scene B:
GLineSceneB == <<"s", "c", "e", "n", "e", " ", "B", ":">>
\* scene C:
GLineSceneC == <<"s", "c", "e", "n", "e", " ", "C", ":">>
\*     choice<C>: x
GLineChoiceC == <<" ", " ", " ", " ", "c", "h", "o", "i", "c", "e", "<", "C", ">", ":", " ", "x">>
\*     choice<A>: y
GLineChoiceA == <<" ", " ", " ", " ", "c", "h", "o", "i", "c", "e", "<", "A", ">", ":", " ", "y">>
\* character X:
GLineCharacterX == <<"c", "h", "a", "r", "a", "c", "t", "e", "r", " ", "X", ":">>
\*     emotion e: p
GLineEmotion == <<" ", " ", " ", " ", "e", "m", "o", "t", "i", "o", "n", " ", "e", ":", " ", "p">>
\*   choice<C>: x
GLineIgnored == <<" ", " ", "c", "h", "o", "i", "c", "e", "<", "C", ">", ":", " ", "x">>

\* the lines that build the scene graph
GraphCoreLines == {GLineSceneA, GLineSceneB, GLineSceneC, GLineChoiceC, GLineChoiceA}

\* the lines that leave the scene graph alone
GraphNoiseLines == {GLineCharacterX, GLineEmotion, GLineIgnored}

GraphLines == GraphCoreLines \cup GraphNoiseLines

(***************************************************************************)
(* The state of main.                                                      *)
(***************************************************************************)
VARIABLES
  script,            \* the raw lines of the script text (never changes)
  lines,             \* the lines still to be consumed
  line,              \* the line shifted by the current iteration
  currentScene,      \* <<>> or <<the open scene>>
  currentCharacter,  \* <<>> or <<the open character>>
  scenes,            \* the finalized scenes
  characters,        \* the finalized characters
  pc,                \* "loop", "reconcile", "done" or "thrown"
  error,             \* the error that aborted the parse, or NoError
  result             \* <<>> or <<the returned ParserResult>>

vars == <<script, lines, line, currentScene, currentCharacter, scenes,
          characters, pc, error, result>>

ScriptsOver(lineSet, maxLen) == UNION {[1..n -> lineSet] : n \in 0..maxLen}

Start(rawLines) ==
  /\ script = rawLines
  /\ lines = getLines(rawLines)
  /\ line = Undefined
  /\ currentScene = <<>>
  /\ currentCharacter = <<>>
  /\ scenes = <<>>
  /\ characters = <<>>
  /\ pc = "loop"
  /\ error = NoError
  /\ result = <<>>

\* three lines that finalize one scene and leave a scene and a character open
Prologue == <<LineSceneA, LineSceneUpperB, LineCharacterX>>

\* up to MaxLines lines, alone or after the prologue
LexicalScripts ==
  ScriptsOver(LexicalLines, MaxLines)
    \cup {Prologue \o s : s \in ScriptsOver(LexicalLines, MaxLines)}

Init == \E rawLines \in LexicalScripts : Start(rawLines)

\* up to MaxGraphLines lines, at most MaxNoiseLines of them noise
GraphFreeLines ==
  {s \in ScriptsOver(GraphLines, MaxGraphLines) :
     Cardinality({i \in DOMAIN s : s[i] \in GraphNoiseLines}) <= MaxNoiseLines}

\* one line that opens scene A
GraphPrologue == <<GLineSceneA>>

\* the free lines, alone or after the prologue
GraphScripts == GraphFreeLines \cup {GraphPrologue \o s : s \in GraphFreeLines}

InitGraph == \E rawLines \in GraphScripts : Start(rawLines)

\* the cases of switch (true): the first case whose test holds is taken
IsCharacterStatement(l) == hasKeyword(KeywordCharacter, l, 0)

IsEmotionStatement(l) == ~IsCharacterStatement(l) /\ hasKeyword(KeywordEmotion, l, 1)

IsSceneStatement(l) ==
  /\ ~IsCharacterStatement(l)
  /\ ~hasKeyword(KeywordEmotion, l, 1)
  /\ hasKeyword(KeywordScene, l, 0)

IsChoiceStatement(l) ==
  /\ ~IsCharacterStatement(l)
  /\ ~hasKeyword(KeywordEmotion, l, 1)
  /\ ~hasKeyword(KeywordScene, l, 0)
  /\ hasKeyword(KeywordChoice, l, 1)

IsIgnoredStatement(l) ==
  /\ ~IsCharacterStatement(l)
  /\ ~hasKeyword(KeywordEmotion, l, 1)
  /\ ~hasKeyword(KeywordScene, l, 0)
  /\ ~hasKeyword(KeywordChoice, l, 1)

\* the exception is caught and recorded, and the loop goes on
ThrowIsCaught(e) == pc' = pc /\ error' = e

\* an exception leaves main: nothing is returned and no further line is read
Throw(e) == pc' = "thrown" /\ error' = e

\* lines[0] instead of lines.shift(): the line is read and stays queued
ShiftPeeks == line' = Head(lines) /\ lines' = lines

\* lines.shift()
Shift == line' = Head(lines) /\ lines' = Tail(lines)

\* a character statement also closes the open scene
CharacterStartClosesScene ==
  /\ pc = "loop"
  /\ lines # <<>>
  /\ IsCharacterStatement(Head(lines))
  /\ Shift
  /\ characters' = IF currentCharacter # <<>>
                   THEN Append(characters, currentCharacter[1])
                   ELSE characters
  /\ scenes' = IF currentScene # <<>> THEN Append(scenes, currentScene[1]) ELSE scenes
  /\ currentScene' = <<>>
  /\ LET made == makeCharacter(Head(lines))
     IN IF made.error # NoError
        THEN Throw(made.error) /\ UNCHANGED currentCharacter
        ELSE currentCharacter' = <<made.character>> /\ UNCHANGED <<pc, error>>
  /\ UNCHANGED <<script, result>>

\* case hasKeyword(Keyword.Character, line, 0)
CharacterStart ==
  /\ pc = "loop"
  /\ lines # <<>>
  /\ IsCharacterStatement(Head(lines))
  /\ Shift
  /\ characters' = IF currentCharacter # <<>>
                   THEN Append(characters, currentCharacter[1])
                   ELSE characters
  /\ LET made == makeCharacter(Head(lines))
     IN IF made.error # NoError
        THEN Throw(made.error) /\ UNCHANGED currentCharacter
        ELSE currentCharacter' = <<made.character>> /\ UNCHANGED <<pc, error>>
  /\ UNCHANGED <<script, currentScene, scenes, result>>

\* case hasKeyword(Keyword.Emotion, line, 1)
EmotionLine ==
  /\ pc = "loop"
  /\ lines # <<>>
  /\ IsEmotionStatement(Head(lines))
  /\ Shift
  /\ LET added == addEmotion(Head(lines), currentCharacter)
     IN IF added.error # NoError
        THEN Throw(added.error) /\ UNCHANGED currentCharacter
        ELSE currentCharacter' = added.character /\ UNCHANGED <<pc, error>>
  /\ UNCHANGED <<script, currentScene, scenes, characters, result>>

\* currentScene.nextScene = newScene.label: an explicit target is overwritten
ChainOverwrites(openScene, newScene) ==
  [openScene EXCEPT !.nextScene = newScene.label]

\* currentScene.nextScene = currentScene.nextScene ?? newScene.label
Chain(openScene, newScene) ==
  [openScene EXCEPT !.nextScene = IF @ = Undefined THEN newScene.label ELSE @]

\* the open scene is replaced without scenes.push(currentScene)
SceneStartDropsOpen ==
  /\ pc = "loop"
  /\ lines # <<>>
  /\ IsSceneStatement(Head(lines))
  /\ Shift
  /\ LET made == makeScene(Head(lines))
     IN IF made.error # NoError
        THEN Throw(made.error) /\ UNCHANGED <<currentScene, scenes>>
        ELSE IF currentScene # <<>>
        THEN /\ scenes' = scenes
             /\ currentScene' =
                  <<[made.scene EXCEPT !.previousScene = currentScene[1].label]>>
             /\ UNCHANGED <<pc, error>>
        ELSE /\ currentScene' = <<made.scene>>
             /\ UNCHANGED <<scenes, pc, error>>
  /\ UNCHANGED <<script, currentCharacter, characters, result>>

\* case hasKeyword(Keyword.Scene, line, 0)
SceneStart ==
  /\ pc = "loop"
  /\ lines # <<>>
  /\ IsSceneStatement(Head(lines))
  /\ Shift
  /\ LET made == makeScene(Head(lines))
     IN IF made.error # NoError
        THEN Throw(made.error) /\ UNCHANGED <<currentScene, scenes>>
        ELSE IF currentScene # <<>>
        THEN /\ scenes' = Append(scenes, Chain(currentScene[1], made.scene))
             /\ currentScene' =
                  <<[made.scene EXCEPT !.previousScene = currentScene[1].label]>>
             /\ UNCHANGED <<pc, error>>
        ELSE /\ currentScene' = <<made.scene>>
             /\ UNCHANGED <<scenes, pc, error>>
  /\ UNCHANGED <<script, currentCharacter, characters, result>>

\* case hasKeyword(Keyword.Choice, line, 1)
ChoiceLine ==
  /\ pc = "loop"
  /\ lines # <<>>
  /\ IsChoiceStatement(Head(lines))
  /\ Shift
  /\ LET added == addChoice(Head(lines), currentScene)
     IN IF added.error # NoError
        THEN Throw(added.error) /\ UNCHANGED currentScene
        ELSE currentScene' = added.scene /\ UNCHANGED <<pc, error>>
  /\ UNCHANGED <<script, currentCharacter, scenes, characters, result>>

\* no case of the switch matches: the line is consumed and nothing else happens
IgnoredLine ==
  /\ pc = "loop"
  /\ lines # <<>>
  /\ IsIgnoredStatement(Head(lines))
  /\ Shift
  /\ UNCHANGED <<script, currentScene, currentCharacter, scenes, characters,
                 pc, error, result>>

\* the open scene is pushed after the loop, the open character is forgotten
FlushForgetsCharacter ==
  /\ pc = "loop"
  /\ lines = <<>>
  /\ scenes' = IF currentScene # <<>> THEN Append(scenes, currentScene[1]) ELSE scenes
  /\ characters' = characters
  /\ pc' = "reconcile"
  /\ UNCHANGED <<script, lines, line, currentScene, currentCharacter, error, result>>

\* the loop has ended: the open scene and the open character are pushed
Flush ==
  /\ pc = "loop"
  /\ lines = <<>>
  /\ scenes' = IF currentScene # <<>> THEN Append(scenes, currentScene[1]) ELSE scenes
  /\ characters' = IF currentCharacter # <<>>
                   THEN Append(characters, currentCharacter[1])
                   ELSE characters
  /\ pc' = "reconcile"
  /\ UNCHANGED <<script, lines, line, currentScene, currentCharacter, error, result>>

\* return { scenes: organizeSceneRefs(scenes), characters }; the pass writes
\* previousScene into the scene objects themselves, which the array scenes and
\* the variable currentScene still refer to
Return ==
  /\ pc = "reconcile"
  /\ result' = <<[scenes |-> organizeSceneRefs(scenes), characters |-> characters]>>
  /\ scenes' = organizeSceneRefs(scenes)
  /\ currentScene' = IF currentScene # <<>>
                     THEN <<organizeSceneRefs(scenes)[Len(scenes)]>>
                     ELSE currentScene
  /\ pc' = "done"
  /\ UNCHANGED <<script, lines, line, currentCharacter, characters, error>>

Next ==
  \/ CharacterStart
  \/ EmotionLine
  \/ SceneStart
  \/ ChoiceLine
  \/ IgnoredLine
  \/ Flush
  \/ Return

Spec == Init /\ [][Next]_vars

SpecGraph == InitGraph /\ [][Next]_vars

(***************************************************************************)
(* Vocabulary of the properties.                                           *)
(***************************************************************************)
\* the lines consumed so far, in order, given the script and the lines left
ConsumedOf(rawLines, left) ==
  SubSeq(getLines(rawLines), 1, Len(getLines(rawLines)) - Len(left))

Consumed == ConsumedOf(script, lines)

\* every scene object created so far, in the order of the declaring statements:
\* the finalized scenes, then the open scene while it is not yet pushed
SceneObjects == IF pc \in {"loop", "thrown"} THEN scenes \o currentScene ELSE scenes

\* the scene statements among the consumed lines that built a scene
AcceptedSceneStatementsOf(consumed) ==
  SelectSeq(consumed, LAMBDA l : IsSceneStatement(l) /\ makeScene(l).error = NoError)

Returned == pc = "done" /\ result # <<>>

\* the indices of the scenes of ss that own a choice targeting label
Owners(ss, label) ==
  {j \in 1..Len(ss) : \E k \in 1..Len(ss[j].choices) : ss[j].choices[k].targetScene = label}

\* the position of the first choice of scene s that targets label
FirstChoiceTo(s, label) ==
  CHOOSE k \in 1..Len(s.choices) :
    /\ s.choices[k].targetScene = label
    /\ \A m \in 1..(k - 1) : s.choices[m].targetScene # label

Min(S) == CHOOSE m \in S : \A n \in S : m <= n

(***************************************************************************)
(* C1  Implicit chaining.                                                  *)
(***************************************************************************)
\* the input is nothing but level-0 scene statements that build a scene and
\* name no explicit next scene
PlainSceneInput ==
  \A i \in 1..Len(script) :
    /\ IsSceneStatement(script[i])
    /\ makeScene(script[i]).error = NoError
    /\ makeScene(script[i]).scene.nextScene = Undefined

\* ss is the scenes of the script, each linked to its neighbours
ChainedAsDeclared(ss) ==
  /\ Len(ss) = Len(script)
  /\ \A i \in 1..Len(ss) :
       /\ ss[i].label = makeScene(script[i]).scene.label
       /\ ss[i].nextScene = (IF i < Len(ss) THEN ss[i + 1].label ELSE Undefined)
       /\ ss[i].previousScene = (IF i > 1 THEN ss[i - 1].label ELSE Undefined)

\* C1: for an input made only of level-0 scene statements without explicit
\* target (hence without choices), the scenes handed to the reconciliation
\* pass are linked each to the next and to the previous one as declared, the
\* first has no previousScene and the last no nextScene, and the returned
\* scenes carry the same links.
C1_ImplicitChaining ==
  /\ (pc = "reconcile" /\ PlainSceneInput) => ChainedAsDeclared(scenes)
  /\ (pc = "done" /\ PlainSceneInput) => ChainedAsDeclared(result[1].scenes)

C1_Witness ==
  /\ Returned
  /\ PlainSceneInput
  /\ Len(result[1].scenes) >= 3
  /\ result[1].scenes[1].nextScene = <<"B">>
  /\ result[1].scenes[2].nextScene = <<"C">>
  /\ result[1].scenes[2].previousScene = <<"A">>
  /\ result[1].scenes[3].previousScene = <<"B">>

(***************************************************************************)
(* C2  nextScene is write-once.                                            *)
(***************************************************************************)
\* a step adds at most one scene object, built by the scene statement it
\* consumes and born with the nextScene that the statement declares; it
\* changes the nextScene of an older scene object only from unset, only for
\* the open scene, and only to the label of the scene that replaces it
NextSceneStep ==
  /\ Len(SceneObjects') >= Len(SceneObjects)
  /\ Len(SceneObjects') > Len(SceneObjects) =>
       /\ Len(SceneObjects') = Len(SceneObjects) + 1
       /\ pc = "loop" /\ lines # <<>> /\ IsSceneStatement(Head(lines))
       /\ SceneObjects'[Len(SceneObjects')].nextScene =
            makeScene(Head(lines)).scene.nextScene
  /\ \A i \in 1..Len(SceneObjects) :
       \/ SceneObjects'[i].nextScene = SceneObjects[i].nextScene
       \/ /\ SceneObjects[i].nextScene = Undefined
          /\ pc = "loop"
          /\ i = Len(SceneObjects)
          /\ Len(SceneObjects') = i + 1
          /\ SceneObjects'[i].nextScene = SceneObjects'[i + 1].label
  /\ pc' = "done" =>
       /\ Len(result'[1].scenes) = Len(SceneObjects)
       /\ \A i \in 1..Len(SceneObjects) :
            result'[1].scenes[i].nextScene = SceneObjects[i].nextScene

\* C2: a scene is born with the target its statement declares, chaining sets
\* nextScene only on the open scene and only while it is unset, and a
\* nextScene that has a value is changed by no later line and by no later
\* pass, so a scene declared with an explicit target keeps it whatever
\* follows.
C2_NextSceneWriteOnce == [][NextSceneStep]_vars

C2_Witness ==
  /\ Returned
  /\ Len(result[1].scenes) >= 2
  /\ script[1] = LineSceneAToZ
  /\ result[1].scenes[1].nextScene = <<"Z">>
  /\ result[1].scenes[2].label # <<"Z">>

(***************************************************************************)
(* C3  Choice-derived back-references take precedence over chaining.       *)
(***************************************************************************)
\* C3: in the returned result, a scene whose label some choice targets has
\* as previousScene the label of a scene that owns such a choice, and a
\* scene no choice targets has the previousScene of chaining: the label of
\* the scene before it, or undefined for the first scene.
C3_ChoiceOverridesChaining ==
  Returned =>
    LET ss == result[1].scenes
    IN \A i \in 1..Len(ss) :
         IF Owners(ss, ss[i].label) # {}
         THEN \E j \in Owners(ss, ss[i].label) : ss[i].previousScene = ss[j].label
         ELSE ss[i].previousScene = (IF i > 1 THEN ss[i - 1].label ELSE Undefined)

\* a targeted scene whose owner is not the scene before it, next to an
\* untargeted scene that keeps its chained predecessor
C3_Witness ==
  /\ Returned
  /\ LET ss == result[1].scenes
     IN /\ \E i \in 2..Len(ss) :
             /\ Owners(ss, ss[i].label) # {}
             /\ ss[i].previousScene # ss[i - 1].label
             /\ \E j \in Owners(ss, ss[i].label) : ss[i].previousScene = ss[j].label
        /\ \E i \in 2..Len(ss) :
             /\ Owners(ss, ss[i].label) = {}
             /\ ss[i].previousScene = ss[i - 1].label

(***************************************************************************)
(* C4  Reconciler tie-break.                                               *)
(***************************************************************************)
\* C4: in the returned result, a scene whose label is targeted by choices of
\* several scenes has as previousScene the label of the earliest of these
\* scenes in output order.
C4_EarliestOwnerWins ==
  Returned =>
    LET ss == result[1].scenes
    IN \A i \in 1..Len(ss) :
         Owners(ss, ss[i].label) # {} =>
           ss[i].previousScene = ss[Min(Owners(ss, ss[i].label))].label

\* two owners with different labels target the same scene, and the later
\* owner has its targeting choice earlier in its own choice list
C4_Witness ==
  /\ Returned
  /\ LET ss == result[1].scenes
     IN \E i \in 1..Len(ss) : \E j1, j2 \in Owners(ss, ss[i].label) :
          /\ j1 < j2
          /\ ss[j1].label # ss[j2].label
          /\ FirstChoiceTo(ss[j1], ss[i].label) > FirstChoiceTo(ss[j2], ss[i].label)
          /\ ss[i].previousScene = ss[j1].label

(***************************************************************************)
(* C5  All-or-nothing errors.                                              *)
(***************************************************************************)
FatalErrors ==
  {ForbiddenInlineScene, ForbiddenInlineCharacter, ChoiceOutsideScene,
   ChoiceMissingTarget, EmotionOutsideCharacter, EmotionMissingPath}

\* the error that line l raises when it is processed in the current state
LineError(l) ==
  IF IsCharacterStatement(l) THEN makeCharacter(l).error
  ELSE IF IsEmotionStatement(l) THEN addEmotion(l, currentCharacter).error
  ELSE IF IsSceneStatement(l) THEN makeScene(l).error
  ELSE IF IsChoiceStatement(l) THEN addChoice(l, currentScene).error
  ELSE NoError

AbortStep ==
  /\ pc # "thrown"
  /\ (pc = "loop" /\ lines # <<>> /\ LineError(Head(lines)) \in FatalErrors) =>
       /\ pc' = "thrown"
       /\ error' = LineError(Head(lines))
       /\ lines' = Tail(lines)
  /\ pc' = "thrown" => result' = <<>>
  /\ result' # <<>> => pc' = "done" /\ error' = NoError

\* C5: a line that triggers one of the fatal conditions aborts the parse at
\* once; after the abort no step is taken (no later line is consumed, the
\* reconciliation pass does not run) and no result is ever returned.
C5_AllOrNothing == [][AbortStep]_vars

\* aborted with a scene already finalized and lines still unread
C5_Witness ==
  /\ pc = "thrown"
  /\ error \in FatalErrors
  /\ scenes # <<>>
  /\ lines # <<>>
  /\ result = <<>>

(***************************************************************************)
(* C6  A scene statement without colon is accepted.                        *)
(***************************************************************************)
\* line is the statement that the last iteration of the loop processed
JustProcessed == pc \in {"loop", "thrown"} /\ line # Undefined

\* C6: a level-0 scene statement with a label and no colon raises no error
\* and opens a scene with the bare label, the <...> parameter as condition
\* and the pointed scene as nextScene.
C6_BareSceneAccepted ==
  (/\ JustProcessed
   /\ IsSceneStatement(line)
   /\ ~includes(line, <<":">>)
   /\ At(split(removeExtraSpaces(line), " "), 2) # Undefined) =>
    LET tokens == split(removeExtraSpaces(line), " ")
    IN /\ error = NoError
       /\ currentScene # <<>>
       /\ currentScene[1].label = getParameter(At(tokens, 2)).string
       /\ currentScene[1].condition = getParameter(At(tokens, 2)).parameter
       /\ currentScene[1].nextScene = At(tokens, 4)

(***************************************************************************)
(* C7  Orphan child lines are fatal.                                       *)
(***************************************************************************)
\* the character statements among the consumed lines that built a character
AcceptedCharacterStatementsOf(consumed) ==
  SelectSeq(consumed,
            LAMBDA l : IsCharacterStatement(l) /\ makeCharacter(l).error = NoError)

OrphanStep ==
  (pc = "loop" /\ lines # <<>>) =>
    /\ IsChoiceStatement(Head(lines)) =>
         IF AcceptedSceneStatementsOf(Consumed) = <<>>
         THEN pc' = "thrown" /\ error' = ChoiceOutsideScene
         ELSE error' # ChoiceOutsideScene
    /\ IsEmotionStatement(Head(lines)) =>
         IF AcceptedCharacterStatementsOf(Consumed) = <<>>
         THEN pc' = "thrown" /\ error' = EmotionOutsideCharacter
         ELSE error' # EmotionOutsideCharacter

\* C7: a choice line processed before any scene statement was accepted
\* aborts with the choice-outside-scene error, also when it has no target,
\* and an emotion line processed before any character statement was
\* accepted aborts with the emotion-outside-character error, also when it
\* has no path; after a scene (a character) was accepted no choice (emotion)
\* line raises that error.
C7_OrphanChildLines == [][OrphanStep]_vars

\* a choice line without target and an emotion line without path, each
\* processed with nothing open, raise the outside errors
C7_Witness ==
  /\ pc = "thrown"
  /\ \/ line = LineChoiceNoTarget /\ error = ChoiceOutsideScene
     \/ line = LineEmotionEmpty /\ error = EmotionOutsideCharacter
  /\ Len(Consumed) = 1

(***************************************************************************)
(* C8  Forbidden inline text.                                              *)
(***************************************************************************)
\* some colon of l is followed, anywhere later on the line, by a character
\* that is not whitespace
HasTextAfterColon(l) ==
  \E i \in 1..Len(l) : \E j \in (i + 1)..Len(l) :
    l[i] = ":" /\ l[j] \notin Whitespace

\* l names a label and its only colon is followed by nothing but whitespace
OnlyTrailingColon(l) ==
  /\ Len(split(l, ":")) = 2
  /\ ~HasTextAfterColon(l)
  /\ Len(split(removeExtraSpaces(l), " ")) >= 2

\* C8: a scene or character declaration with a colon followed later on the
\* line by non-whitespace text is rejected with the forbidden-inline-text
\* error and creates nothing, and one whose only colon is a trailing one is
\* accepted.
C8_InlineTextRejected ==
  (JustProcessed /\ (IsSceneStatement(line) \/ IsCharacterStatement(line))) =>
    /\ HasTextAfterColon(line) =>
         /\ pc = "thrown"
         /\ error = (IF IsSceneStatement(line) THEN ForbiddenInlineScene
                     ELSE ForbiddenInlineCharacter)
    /\ OnlyTrailingColon(line) => error = NoError

(***************************************************************************)
(* C9  An emotion needs a non-empty path.                                  *)
(***************************************************************************)
\* everything after the first colon of l, or nothing when l has no colon
AfterFirstColon(l) ==
  IF includes(l, <<":">>) THEN SubSeq(l, indexOf(l, <<":">>) + 2, Len(l)) ELSE <<>>

\* C9: an emotion line with nothing but whitespace after its colon aborts
\* with the missing-path error, and no character of a returned result maps
\* an emotion name to the empty string.
C9_EmotionPathNonEmpty ==
  /\ (/\ JustProcessed
      /\ IsEmotionStatement(line)
      /\ trim(AfterFirstColon(line)) = <<>>) => pc = "thrown"
  /\ Returned =>
       \A i \in 1..Len(result[1].characters) :
         \A e \in DOMAIN result[1].characters[i].emotions :
           result[1].characters[i].emotions[e] # <<>>

(***************************************************************************)
(* C10  Indentation gate.                                                  *)
(***************************************************************************)
\* the number of leading space characters of l; a tab is not a space
RECURSIVE LeadingSpaces(_)
LeadingSpaces(l) ==
  IF l = <<>> \/ Head(l) # " " THEN 0 ELSE 1 + LeadingSpaces(Tail(l))

BeginsWithChoice(l) == startsWith(trim(toLowerCase(l)), KeywordChoice)

\* the line names a target and has a colon, so that addChoice can build a choice
WellFormedChoice(l) ==
  /\ Truthy(getParameter(At(split(l, ":"), 1)).parameter)
  /\ includes(l, <<":">>)

IndentationStep ==
  (pc = "loop" /\ lines # <<>> /\ BeginsWithChoice(Head(lines))) =>
    IF LeadingSpaces(Head(lines)) = 4
    THEN (currentScene # <<>> /\ WellFormedChoice(Head(lines))) =>
           /\ currentScene' # <<>>
           /\ Len(currentScene'[1].choices) = Len(currentScene[1].choices) + 1
           /\ error' = NoError
    ELSE UNCHANGED <<currentScene, currentCharacter, scenes, characters, pc, error>>

\* C10: a line beginning with `choice` is a choice only with exactly 4
\* leading spaces: with any other count it is ignored (no choice, no error,
\* also with no scene open), and with exactly 4 inside an open scene it
\* appends exactly one choice.
C10_IndentationGate == [][IndentationStep]_vars

(***************************************************************************)
(* C11  Leading tabs.                                                      *)
(***************************************************************************)
\* the leading whitespace of l holds at least one tab
HasLeadingTab(l) ==
  \E i \in 1..LeadingWhitespace(l) : l[i] = "\t"

TabStep ==
  (pc = "loop" /\ lines # <<>> /\ HasLeadingTab(Head(lines))) =>
    /\ lines' = Tail(lines)
    /\ UNCHANGED <<currentScene, currentCharacter, scenes, characters, pc, error>>

\* C11: a line whose leading whitespace holds a tab is recognized as no
\* statement at any level: it is consumed and the open scene, the open
\* character, the finished scenes and characters stay as they were, with
\* no error.
C11_LeadingTabsIgnored == [][TabStep]_vars

(***************************************************************************)
(* C12  Emission count.                                                    *)
(***************************************************************************)
\* the lines of the input that begin with keyword at level 0, in any
\* letter case: no whitespace stands before the keyword
StatementsAtLevel0(rawLines, keyword) ==
  SelectSeq(getLines(rawLines), LAMBDA l : startsWith(toLowerCase(l), keyword))

\* C12: a returned result holds as many scenes as the input has level-0
\* scene statements and as many characters as it has level-0 character
\* statements.
C12_EmissionCount ==
  Returned =>
    /\ Len(result[1].scenes) = Len(StatementsAtLevel0(script, KeywordScene))
    /\ Len(result[1].characters) = Len(StatementsAtLevel0(script, KeywordCharacter))

\* two scenes and a character are returned from an input that also holds
\* a scene line off level 0 and a reserved `ending scene` line
C12_Witness ==
  /\ Returned
  /\ Len(result[1].scenes) = 2
  /\ Len(result[1].characters) = 1
  /\ Len(script) = 5
  /\ script[4] = LineEndingScene
  /\ script[5] = LineSceneIndent2

(***************************************************************************)
(* C13  End-of-input flush.                                                *)
(***************************************************************************)
\* the position in ls of the last line that satisfies Is, 0 if there is none
LastStatement(ls, Is(_)) ==
  IF \E i \in 1..Len(ls) : Is(ls[i])
  THEN CHOOSE i \in 1..Len(ls) : Is(ls[i]) /\ \A j \in (i + 1)..Len(ls) : ~Is(ls[j])
  ELSE 0

\* the number of lines of ls after position p that satisfy Is
CountAfter(ls, p, Is(_)) == Cardinality({j \in (p + 1)..Len(ls) : Is(ls[j])})

Last(s) == s[Len(s)]

\* the scene and the character that are open when the input ends are the last
\* elements of the returned sequences, with the choices and emotions they
\* collected
FlushedLast ==
  LET ls == getLines(script)
      s == LastStatement(ls, IsSceneStatement)
      c == LastStatement(ls, IsCharacterStatement)
  IN /\ s > 0 =>
          /\ result[1].scenes # <<>>
          /\ Last(result[1].scenes) = currentScene[1]
          /\ Last(result[1].scenes).label = makeScene(ls[s]).scene.label
          /\ Len(Last(result[1].scenes).choices) = CountAfter(ls, s, IsChoiceStatement)
     /\ c > 0 =>
          /\ result[1].characters # <<>>
          /\ Last(result[1].characters) = currentCharacter[1]
          /\ Last(result[1].characters).name = makeCharacter(ls[c]).character.name
          /\ CountAfter(ls, c, IsEmotionStatement) > 0 =>
               DOMAIN Last(result[1].characters).emotions # {}

\* the returned sequences follow the order of the declaring statements
InStatementOrder ==
  LET ss == SelectSeq(getLines(script), IsSceneStatement)
      cs == SelectSeq(getLines(script), IsCharacterStatement)
  IN /\ Len(result[1].scenes) = Len(ss)
     /\ \A i \in 1..Len(ss) : result[1].scenes[i].label = makeScene(ss[i]).scene.label
     /\ Len(result[1].characters) = Len(cs)
     /\ \A i \in 1..Len(cs) :
          result[1].characters[i].name = makeCharacter(cs[i]).character.name

\* C13: when the input ends, the open scene with its choices and the open
\* character with its emotions are the last elements of the returned
\* sequences, and both sequences are in the order of the declaring
\* statements.
C13_EndOfInputFlush == Returned => (FlushedLast /\ InStatementOrder)

\* the input ends with scene B and character X open, each with a child line
C13_Witness ==
  /\ Returned
  /\ Len(result[1].scenes) = 2
  /\ Len(Last(result[1].scenes).choices) = 1
  /\ Len(result[1].characters) = 1
  /\ DOMAIN Last(result[1].characters).emotions # {}

(***************************************************************************)
(* C14  Unique scene labels.                                               *)
(***************************************************************************)
\* C14: no two scenes of a returned result have the same label.
C14_UniqueSceneLabels ==
  Returned =>
    \A i, j \in 1..Len(result[1].scenes) :
      result[1].scenes[i].label = result[1].scenes[j].label => i = j

(***************************************************************************)
(* C15  Unrecognized lines.                                                *)
(***************************************************************************)
\* l begins with keyword behind exactly 4 * level leading spaces and no tab
MatchesPair(l, keyword, level) ==
  /\ startsWith(trim(toLowerCase(l)), keyword)
  /\ ~HasLeadingTab(l)
  /\ LeadingSpaces(l) = 4 * level

MatchesNoPair(l) ==
  /\ ~MatchesPair(l, KeywordCharacter, 0)
  /\ ~MatchesPair(l, KeywordEmotion, 1)
  /\ ~MatchesPair(l, KeywordScene, 0)
  /\ ~MatchesPair(l, KeywordChoice, 1)

UnrecognizedStep ==
  (pc = "loop" /\ lines # <<>> /\ MatchesNoPair(Head(lines))) =>
    /\ lines' = Tail(lines)
    /\ UNCHANGED <<currentScene, currentCharacter, scenes, characters, pc,
                   error, result>>

\* C15: a line that matches none of the pairs character/0, emotion/1,
\* scene/0, choice/1 is consumed without error and leaves the open scene,
\* the open character and both finished sequences as they were, so the
\* parse goes on exactly as for the input without that line.
C15_UnrecognizedLinesInert == [][UnrecognizedStep]_vars

\* the same step for the unrecognized lines that carry no leading tab
UnrecognizedSpacesStep ==
  (pc = "loop" /\ lines # <<>> /\ ~HasLeadingTab(Head(lines))) => UnrecognizedStep

UnrecognizedSpacesInert == [][UnrecognizedSpacesStep]_vars

(***************************************************************************)
(* C16  Scene blocks and character blocks are independent.                 *)
(***************************************************************************)
IsCharacterBlockLine(l) == IsCharacterStatement(l) \/ IsEmotionStatement(l)

IsSceneBlockLine(l) == IsSceneStatement(l) \/ IsChoiceStatement(l)

WithoutCharacterBlocks(ls) == SelectSeq(ls, LAMBDA l : ~IsCharacterBlockLine(l))

WithoutSceneBlocks(ls) == SelectSeq(ls, LAMBDA l : ~IsSceneBlockLine(l))

\* main on an input ls without character and emotion lines, from the open
\* scene open and the finished scenes done: the scenes it returns, or the
\* error it throws
RECURSIVE ScenesOf(_, _, _)
ScenesOf(ls, open, done) ==
  IF ls = <<>>
  THEN [error |-> NoError, scenes |-> organizeSceneRefs(done \o open)]
  ELSE IF IsSceneStatement(Head(ls))
  THEN LET made == makeScene(Head(ls))
       IN IF made.error # NoError
          THEN [error |-> made.error, scenes |-> <<>>]
          ELSE IF open # <<>>
          THEN ScenesOf(Tail(ls),
                        <<[made.scene EXCEPT !.previousScene = open[1].label]>>,
                        Append(done, Chain(open[1], made.scene)))
          ELSE ScenesOf(Tail(ls), <<made.scene>>, done)
  ELSE IF IsChoiceStatement(Head(ls))
  THEN LET added == addChoice(Head(ls), open)
       IN IF added.error # NoError
          THEN [error |-> added.error, scenes |-> <<>>]
          ELSE ScenesOf(Tail(ls), added.scene, done)
  ELSE ScenesOf(Tail(ls), open, done)

\* main on an input ls without scene and choice lines: the characters it
\* returns, or the error it throws
RECURSIVE CharactersOf(_, _, _)
CharactersOf(ls, open, done) ==
  IF ls = <<>>
  THEN [error |-> NoError, characters |-> done \o open]
  ELSE IF IsCharacterStatement(Head(ls))
  THEN LET made == makeCharacter(Head(ls))
       IN IF made.error # NoError
          THEN [error |-> made.error, characters |-> <<>>]
          ELSE CharactersOf(Tail(ls), <<made.character>>, done \o open)
  ELSE IF IsEmotionStatement(Head(ls))
  THEN LET added == addEmotion(Head(ls), open)
       IN IF added.error # NoError
          THEN [error |-> added.error, characters |-> <<>>]
          ELSE CharactersOf(Tail(ls), added.character, done)
  ELSE CharactersOf(Tail(ls), open, done)

ScenesWithoutCharacterBlocks ==
  ScenesOf(WithoutCharacterBlocks(getLines(script)), <<>>, <<>>)

CharactersWithoutSceneBlocks ==
  CharactersOf(WithoutSceneBlocks(getLines(script)), <<>>, <<>>)

\* a step on a line of one kind of block leaves the other kind untouched
IndependenceStep ==
  /\ (pc = "loop" /\ lines # <<>> /\ IsCharacterBlockLine(Head(lines))) =>
       UNCHANGED <<currentScene, scenes>>
  /\ (pc = "loop" /\ lines # <<>> /\ IsSceneBlockLine(Head(lines))) =>
       UNCHANGED <<currentCharacter, characters>>

\* the returned scenes are those of the input without its character and
\* emotion lines, the returned characters those of the input without its
\* scene and choice lines
ReturnedAsSeparately ==
  pc = "reconcile" =>
    /\ ScenesWithoutCharacterBlocks.error = NoError
    /\ result'[1].scenes = ScenesWithoutCharacterBlocks.scenes
    /\ CharactersWithoutSceneBlocks.error = NoError
    /\ result'[1].characters = CharactersWithoutSceneBlocks.characters

\* a parse that aborts returns no scenes and no characters: so does the
\* parse of the input without the lines of the other kind
AbortedAsSeparately ==
  (pc = "loop" /\ pc' = "thrown") =>
    /\ ScenesWithoutCharacterBlocks.error # NoError
    /\ CharactersWithoutSceneBlocks.error # NoError

\* C16 as stated: character and emotion lines never change the open scene
\* or the finished scenes, scene and choice lines never change the open
\* character or the finished characters, and for every input the scenes
\* output is the scenes output of the input without its character and
\* emotion lines, and symmetrically for the characters.
C16_BlocksIndependentAlways ==
  [][IndependenceStep /\ ReturnedAsSeparately /\ AbortedAsSeparately]_vars

\* C16, amended: the frame conditions hold for every input, and the outputs
\* are those of the separated inputs for every input that returns a result.
C16_BlocksIndependent == [][IndependenceStep /\ ReturnedAsSeparately]_vars

\* a result is returned for an input in which a character statement stands
\* between a scene statement and a choice line, and the choice is attached
\* to that scene
C16_Witness ==
  /\ Returned
  /\ Len(script) = 4
  /\ IsSceneStatement(script[2])
  /\ IsCharacterStatement(script[3])
  /\ IsChoiceStatement(script[4])
  /\ Len(result[1].scenes[2].choices) = 1
  /\ Len(result[1].characters) = 1

(***************************************************************************)
(* C17  No mutation after finalization.                                    *)
(***************************************************************************)
FinalizedStep ==
  /\ Len(scenes') >= Len(scenes)
  /\ Len(characters') >= Len(characters)
  /\ \A i \in 1..Len(characters) : characters'[i] = characters[i]
  /\ \A i \in 1..Len(scenes) :
       IF pc = "reconcile"
       THEN scenes'[i] = [scenes[i] EXCEPT !.previousScene = scenes'[i].previousScene]
       ELSE scenes'[i] = scenes[i]
  /\ pc = "reconcile" =>
       /\ Len(scenes') = Len(scenes)
       /\ result'[1].scenes = scenes'
       /\ result'[1].characters = characters

TargetOf(l) ==
  LET open == Min({i \in 1..Len(l) : l[i] = "<"})
      close == Min({i \in 1..Len(l) : l[i] = ">"})
  IN SubSeq(l, open + 1, close - 1)

\* the targets of the choice lines of ls from position k up to the next
\* scene statement or the end, in source order
RECURSIVE ChoiceTargetsFrom(_, _)
ChoiceTargetsFrom(ls, k) ==
  IF k > Len(ls) \/ IsSceneStatement(ls[k]) THEN <<>>
  ELSE (IF IsChoiceStatement(ls[k]) THEN <<TargetOf(ls[k])>> ELSE <<>>)
       \o ChoiceTargetsFrom(ls, k + 1)

\* for each scene statement of ls from position k on, in source order, the
\* targets of the choice lines of its block
RECURSIVE ChoiceTargetsByScene(_, _)
ChoiceTargetsByScene(ls, k) ==
  IF k > Len(ls) THEN <<>>
  ELSE (IF IsSceneStatement(ls[k]) THEN <<ChoiceTargetsFrom(ls, k + 1)>> ELSE <<>>)
       \o ChoiceTargetsByScene(ls, k + 1)

TargetScenes(scene) == [k \in 1..Len(scene.choices) |-> scene.choices[k].targetScene]

\* C18: in a returned result the choices of each scene are the choice lines
\* between its statement and the next scene statement or the end of the
\* input, in source order, each with the target named between `<` and `>`;
\* a scene without such a line has no choices, and a target that is no
\* scene's label is no error.
C18_ChoiceOwnershipAndOrder ==
  Returned =>
    LET byScene == ChoiceTargetsByScene(getLines(script), 1)
    IN /\ Len(result[1].scenes) = Len(byScene)
       /\ \A i \in 1..Len(byScene) : TargetScenes(result[1].scenes[i]) = byScene[i]

\* a scene with two choices to different targets, one of them the label of
\* no scene, next to a scene without choices
C18_Witness ==
  /\ Returned
  /\ LET ss == result[1].scenes
     IN /\ \E i \in 1..Len(ss) :
             /\ Len(ss[i].choices) = 2
             /\ ss[i].choices[1].targetScene # ss[i].choices[2].targetScene
             /\ \E k \in 1..2 : \A j \in 1..Len(ss) :
                  ss[j].label # ss[i].choices[k].targetScene
        /\ \E i \in 1..Len(ss) : ss[i].choices = <<>>

(***************************************************************************)
(* C19  Emotion path.                                                      *)
(***************************************************************************)
\* the second word of the instruction, the text of l before its first colon
EmotionNameOf(l) ==
  At(split(removeExtraSpaces(SubSeq(l, 1, Len(l) - Len(AfterFirstColon(l)) - 1)),
           " "), 2)

\* C19: after an accepted emotion line the open character maps the emotion
\* name to the trimmed text of everything behind the line's first colon,
\* further colons included; a name set again takes the later path.
C19_EmotionPathWholeRemainder ==
  (/\ JustProcessed
   /\ IsEmotionStatement(line)
   /\ error = NoError) =>
     /\ currentCharacter # <<>>
     /\ EmotionNameOf(line) \in DOMAIN currentCharacter[1].emotions
     /\ currentCharacter[1].emotions[EmotionNameOf(line)] = trim(AfterFirstColon(line))

\* the part of C19 on a name set twice: the later path stands
EmotionSetAgain ==
  (/\ JustProcessed
   /\ Len(Consumed) >= 2
   /\ Consumed[Len(Consumed) - 1] = LineEmotionHappy
   /\ Consumed[Len(Consumed)] = LineEmotionHappyQ
   /\ error = NoError) =>
     currentCharacter[1].emotions[<<"h", "a", "p", "p", "y">>] = <<"q">>

(***************************************************************************)
(* C20  Termination.                                                       *)
(***************************************************************************)
MaxFairLines == 3

\* lines for every case of the loop, with and without a fatal error
TerminationLines ==
  {LineSceneA, LineSceneInline, LineSceneBare, LineCharacterX, LineEmotionHappy,
   LineChoiceB, LineChoiceNoTarget, LineUseEmotion, LineBlank}

InitFair == \E rawLines \in ScriptsOver(TerminationLines, MaxFairLines) : Start(rawLines)

\* an iteration of the loop: one of the cases of the switch, or none
Iteration == CharacterStart \/ EmotionLine \/ SceneStart \/ ChoiceLine \/ IgnoredLine

\* the loop has a line to read: exactly then an iteration can be taken, as
\* the five cases cover every line
CanIterate == pc = "loop" /\ lines # <<>>

\* weak fairness of Iteration, with ENABLED <<Iteration>>_vars written out as
\* CanIterate
IterationFair == ([]<>~CanIterate) \/ ([]<><<Iteration>>_vars)

\* main is sequential code that runs to its return or to its throw: a step
\* that can be taken is taken
SpecFair ==
  InitFair /\ [][Next]_vars /\ IterationFair /\ WF_vars(Flush) /\ WF_vars(Return)

\* the parse has ended with a returned result, after the reconciliation pass
EndedWithResult ==
  /\ pc = "done"
  /\ lines = <<>>
  /\ error = NoError
  /\ result = <<[scenes |-> scenes, characters |-> characters]>>

\* the parse has ended with a fatal error and no result
EndedWithError == pc = "thrown" /\ error # NoError /\ result = <<>>

\* the queued lines are the last lines of the input, in their order, and the
\* current line is the one just before them
ConsumedInOrder ==
  LET ls == getLines(script)
      n == Len(ls) - Len(lines)
  IN /\ n >= 0
     /\ lines = SubSeq(ls, n + 1, Len(ls))
     /\ line = (IF n = 0 THEN Undefined ELSE ls[n])

\* an iteration of the loop reads exactly the first queued line
IterationStep ==
  (pc = "loop" /\ lines # <<>>) => (line' = Head(lines) /\ lines' = Tail(lines))

\* C20: every iteration of the loop reads exactly the first queued line, the
\* lines are read first to last and none is read again or queued again, and
\* the parse ends in exactly one of two ways and stays there: with a
\* returned result after the reconciliation pass, or with a fatal error.
C20_Termination ==
  /\ [][IterationStep]_vars
  /\ [](ConsumedInOrder /\ ~(EndedWithResult /\ EndedWithError))
  /\ <>[](EndedWithResult \/ EndedWithError)

\* a parse that read three lines and returned a result
C20_Witness ==
  /\ EndedWithResult
  /\ Len(getLines(script)) = 3
  /\ line = getLines(script)[3]
  /\ result[1].scenes # <<>>

====
